---- MODULE Spec2Model ----
(***************************************************************************)
(* A model of the Smolyak sparse-grid construction of                      *)
(* src/Python/smolyak_opt.py (class SmolyakGrid) and of the helpers of     *)
(* src/smolyak_jmmv.py that the properties below refer to.                 *)
(*                                                                         *)
(* One behaviour is one call SmolyakGrid(d, mu, do): the validation of     *)
(* __init__, build_grid (a_chain, _smol_inds, the product loop) and, for   *)
(* do = "all", build_B (cheby2n, poly_inds, the column loop, lu).  The     *)
(* loops of the code are stepped one iteration per action.                 *)
(*                                                                         *)
(* Numbers.  A node is the float -1.*cos(pi*(j-1)/(m_i-1)) with m_i-1 a    *)
(* power of two.  Multiplying and dividing a float by a power of two is    *)
(* exact, so the argument handed to cos depends only on the fraction       *)
(* (j-1)/(m_i-1) in lowest terms; a node is therefore written <<p, q>>,    *)
(* the fraction p/q in lowest terms, and stands for -cos(pi*p/q).          *)
(* cos(0.) is 1. and cos(fl(pi)) is -1. exactly, so the literals -1. and   *)
(* 1. are <<0, 1>> and <<1, 1>>.  The float -cos(fl(pi)/2) is 6.1e-17,     *)
(* not 0., so <<1, 2>> and the literal 0. (written <<0, 0>>) differ until  *)
(* the code snaps values below 1e-14 to 0.                                 *)
(***************************************************************************)
EXTENDS Integers, Sequences, FiniteSets, TLC

\* Inputs d and mu are drawn from 0..MaxSum with d + mu <= MaxSum.
MaxSum == 6

DoValues == {"all", "grid", "other"}

VARIABLES
  d, mu, do,      \* the arguments of __init__
  pc,             \* position in __init__ / build_grid / build_B
  attrs,          \* names of the attributes set on self so far
  raised,         \* the exception that left __init__, or "none"
  Sn, seq,        \* a_chain: the shrinking array Sn, the loop variable seq
  A_chain,        \* a_chain: the dictionary being filled (level -> nodes)
  smol_inds,      \* self.smol_inds
  idx,            \* position of the running for loop (1-based)
  points,         \* build_grid: the list points
  grid,           \* self.grid
  Ts,             \* build_B: the table returned by cheby2n
  base_polys,     \* poly_inds: the list base_polys
  B,              \* build_B: the local matrix B, as the sequence of its columns
  selfB, B_L, B_U \* self.B, self.B_L, self.B_U

vars == <<d, mu, do, pc, attrs, raised, Sn, seq, A_chain, smol_inds, idx,
          points, grid, Ts, base_polys, B, selfB, B_L, B_U>>

----------------------------------------------------------------------------
(* Arithmetic helpers *)

RECURSIVE Pow2(_)
Pow2(k) == IF k <= 0 THEN 1 ELSE 2 * Pow2(k - 1)

RECURSIVE Gcd(_, _)
Gcd(a, b) == IF b = 0 THEN a ELSE Gcd(b, a % b)

RECURSIVE SumTo(_, _)
\* f[1] + ... + f[k]
SumTo(f, k) == IF k = 0 THEN 0 ELSE f[k] + SumTo(f, k - 1)

RECURSIVE Flatten(_)
\* chain.from_iterable / repeated list.extend
Flatten(ss) == IF ss = <<>> THEN <<>> ELSE Head(ss) \o Flatten(Tail(ss))

----------------------------------------------------------------------------
(* Node values *)

ZERO == <<0, 0>>      \* the literal 0.
NEG_ONE == <<0, 1>>   \* the literal -1.  (= -cos(0.))
POS_ONE == <<1, 1>>   \* the literal 1.   (= -cos(fl(pi)))

\* -1. * np.cos(np.pi*(j-1.)/(m_i-1.)) for k = j-1, m = m_i-1
NegCos(k, m) == LET g == Gcd(k, m) IN <<k \div g, m \div g>>

\* np.abs(v) < 1e-14: among the values -cos(pi*p/q), q a power of two below
\* 2^45, only the one at p/q = 1/2 (6.1e-17) is that small
AbsBelowTol(v) == v = <<1, 2>>

\* the snap to 0. left out
Snap_None(v) == v

\* vals[np.where(np.abs(vals) < 1e-14)] = 0.0
Snap(v) == IF AbsBelowTol(v) THEN ZERO ELSE v

\* 2*(n-1) + 1 in place of 2**(n-1) + 1
m_of_Times(n) == 2 * (n - 1) + 1

\* m_i = 2**(n-1) + 1
m_of(n) == Pow2(n - 1) + 1

\* SmolyakGrid._s_n
s_n(n) ==
  IF n = 1 THEN <<ZERO>>
  ELSE LET m_i == m_of(n) IN [j \in 1..m_i |-> Snap(NegCos(j - 1, m_i - 1))]

\* Sn[range(1, num, 2)]: the odd 0-based positions
Odds(s) == [i \in 1..(Len(s) \div 2) |-> s[2 * i]]

\* Sn left as it is
Evens_All(s) == s

\* Sn[range(0, num, 2)]: the even 0-based positions
Evens(s) == [i \in 1..((Len(s) + 1) \div 2) |-> s[2 * i - 1]]

----------------------------------------------------------------------------
(* a_chain, as a function of n (the stepped version is in the actions) *)

\* A_chain[1] = [0.]; A_chain[2] = [-1., 1.]
A_chain_seed == (1 :> <<ZERO>>) @@ (2 :> <<NEG_ONE, POS_ONE>>)

\* one iteration of "for seq in xrange(n, 2, -1)": the new dictionary
A_chain_put(chain, S, k) == (k :> Odds(S)) @@ chain

----------------------------------------------------------------------------
(* _smol_inds *)

\* [1]*d
Ones(dd) == [i \in 1..dd |-> 1]

RECURSIVE CWR(_, _, _)
\* itertools.combinations_with_replacement(range(lo, hi+1), k): the
\* non-decreasing k-tuples over lo..hi in lexicographic order
CWR(lo, hi, k) ==
  IF k = 0 THEN << <<>> >>
  ELSE Flatten([v \in 1..(hi - lo + 1) |->
         LET rest == CWR(lo + v - 1, hi, k - 1)
         IN  [j \in 1..Len(rest) |-> <<lo + v - 1>> \o rest[j]]])

\* val with its first occurrence of x removed
RemoveOne(val, x) ==
  LET i == CHOOSE j \in 1..Len(val) : val[j] = x /\ \A h \in 1..(j - 1) : val[h] # x
  IN  [j \in 1..(Len(val) - 1) |-> IF j < i THEN val[j] ELSE val[j + 1]]

RECURSIVE permute(_)
\* smolyak_utils.permute: every distinct permutation of the sorted list val,
\* once each, in lexicographic order
permute(val) ==
  IF Len(val) = 0 THEN << <<>> >>
  ELSE LET isNew(i) == \A h \in 1..(i - 1) : val[h] # val[i]
       IN  Flatten([i \in 1..Len(val) |->
             IF isNew(i)
             THEN LET rest == permute(RemoveOne(val, val[i]))
                  IN  [j \in 1..Len(rest) |-> <<val[i]>> \o rest[j]]
             ELSE <<>>])

\* sum(el)
Sum(el) == SumTo(el, Len(el))

\* the lower bound not strict: d <= sum(el) <= d+mu
Admissible_NotStrict(el, dd, m) == dd <= Sum(el) /\ Sum(el) <= dd + m

\* d < sum(el) <= d+mu
Admissible(el, dd, m) == dd < Sum(el) /\ Sum(el) <= dd + m

\* poss_inds
poss_inds(dd, m) ==
  SelectSeq(CWR(1, m + 1, dd), LAMBDA el : Admissible(el, dd, m))

\* the all-ones entry not added
ExtendOnes_Skipped(true_inds, dd) == true_inds

\* true_inds.extend([[[1]*d]])
ExtendOnes(true_inds, dd) == true_inds \o << <<Ones(dd)>> >>

\* SmolyakGrid._smol_inds: the list tinds
tinds_of(dd, m) ==
  LET poss == poss_inds(dd, m)
      true_inds == [i \in 1..Len(poss) |-> permute(poss[i])]
  IN  Flatten(ExtendOnes(true_inds, dd))

----------------------------------------------------------------------------
(* itertools.product and the chains it is applied to *)

RECURSIVE Product(_)
\* list(product(*temp)): the last position varies fastest
Product(temp) ==
  IF temp = <<>> THEN << <<>> >>
  ELSE LET rest == Product(Tail(temp))
           h == Head(temp)
       IN  Flatten([i \in 1..Len(h) |->
                      [j \in 1..Len(rest) |-> <<h[i]>> \o rest[j]]])

\* temp = [chain[i] for i in el]
Select(chain, el) == [k \in 1..Len(el) |-> chain[el[k]]]

\* range(a, b+2)
RangeSeq_OneMore(a, b) == [i \in 1..(b - a + 2) |-> a + i - 1]

\* range(a, b+1) as a list
RangeSeq(a, b) == [i \in 1..(b - a + 1) |-> a + i - 1]

\* 2**i + 1 in place of 2**(i-1) + 1
end_val_NextLevel(i) == Pow2(i) + 1

\* end_val = 2**(i-1) + 1
end_val(i) == Pow2(i - 1) + 1

RECURSIVE phi_loop(_, _, _, _)
\* "for i in xrange(3, n+1)" of phi_chain, from iteration i on
phi_loop(aphi, curr_val, i, n) ==
  IF i > n THEN aphi
  ELSE phi_loop((i :> RangeSeq(curr_val, end_val(i))) @@ aphi,
                end_val(i) + 1, i + 1, n)

\* SmolyakGrid.phi_chain
phi_chain(n) == phi_loop((1 :> <<1>>) @@ (2 :> <<2, 3>>), 4, 3, n)

----------------------------------------------------------------------------
(* Real numbers of build_B.                                                *)
(* Every number build_B computes is a sum of products of node values, so   *)
(* it lies in Q(cos(pi/M)), M = 2^mu, which has the basis c_0 = 1,         *)
(* c_t = cos(pi*t/M) for 0 < t < M/2 over Q.  A number is written          *)
(* [v |-> <<a_0, ..., a_(H-1)>>, e |-> k], H = max(1, M/2), and stands     *)
(* for (a_0*c_0 + ... + a_(H-1)*c_(H-1)) / 2^k, with k as small as it can  *)
(* be; the representation is unique, so equal numbers are equal records.   *)
(* Arithmetic is exact: the rounding of the floats is not modelled.        *)

HalfM(M) == IF M < 2 THEN 1 ELSE M \div 2

RECURSIVE Norm(_)
\* lowest terms: halve while the exponent is positive and every a_t is even
Norm(x) ==
  IF \A i \in 1..Len(x.v) : x.v[i] = 0 THEN [v |-> x.v, e |-> 0]
  ELSE IF x.e > 0 /\ \A i \in 1..Len(x.v) : x.v[i] % 2 = 0
       THEN Norm([v |-> [i \in 1..Len(x.v) |-> x.v[i] \div 2], e |-> x.e - 1])
       ELSE x

\* the integer k as a number
IntNum(k, M) == [v |-> [i \in 1..HalfM(M) |-> IF i = 1 THEN k ELSE 0], e |-> 0]

\* cos(pi*k/M) = sign * c_t, as <<sign, t>>
CosRed(k, M) ==
  LET k1 == k % (2 * M)
      k2 == IF k1 > M THEN 2 * M - k1 ELSE k1
  IN  IF 2 * k2 = M THEN <<0, 0>>
      ELSE IF 2 * k2 < M THEN <<1, k2>> ELSE <<-1, M - k2>>

\* the number a node value stands for: 0. is 0, <<p, q>> is -cos(pi*p/q)
NodeNum(node, M) ==
  IF node = ZERO THEN IntNum(0, M)
  ELSE LET c == CosRed((node[1] * M) \div node[2], M)
       IN  [v |-> [i \in 1..HalfM(M) |-> IF i = c[2] + 1 THEN -c[1] ELSE 0],
            e |-> 0]

\* the nonzero terms of x, as <<t, a_t>>
TermsOf(x) ==
  SelectSeq([i \in 1..Len(x.v) |-> <<i - 1, x.v[i]>>], LAMBDA tm : tm[2] # 0)

RECURSIVE SumAt(_, _, _)
\* the sum of the coefficients of the first k terms of tms that sit at c_t
SumAt(tms, t, k) ==
  IF k = 0 THEN 0
  ELSE (IF tms[k][1] = t THEN tms[k][2] ELSE 0) + SumAt(tms, t, k - 1)

\* x * y, by c_s * c_t = (cos(pi*(s+t)/M) + cos(pi*(s-t)/M)) / 2
Mul(x, y, M) ==
  LET tx == TermsOf(x)
      ty == TermsOf(y)
      one(k, a) == LET c == CosRed(k, M) IN <<c[2], c[1] * a>>
      tms == Flatten([i \in 1..(Len(tx) * Len(ty)) |->
               LET p == tx[((i - 1) \div Len(ty)) + 1]
                   q == ty[((i - 1) % Len(ty)) + 1]
                   dlt == IF p[1] >= q[1] THEN p[1] - q[1] ELSE q[1] - p[1]
               IN  <<one(p[1] + q[1], p[2] * q[2]), one(dlt, p[2] * q[2])>>])
  IN  Norm([v |-> [i \in 1..Len(x.v) |-> SumAt(tms, i - 1, Len(tms))],
            e |-> x.e + y.e + 1])

\* x - y
Sub(x, y) ==
  LET e == IF x.e >= y.e THEN x.e ELSE y.e
      fx == Pow2(e - x.e)
      fy == Pow2(e - y.e)
  IN  Norm([v |-> [i \in 1..Len(x.v) |-> fx * x.v[i] - fy * y.v[i]], e |-> e])

\* 2 * x
Twice(x) == Norm([v |-> [i \in 1..Len(x.v) |-> 2 * x.v[i]], e |-> x.e])

RECURSIVE MulAll(_, _, _)
\* reduce(mul, [f[1], ..., f[k]])
MulAll(f, k, M) == IF k = 1 THEN f[1] ELSE Mul(MulAll(f, k - 1, M), f[k], M)

----------------------------------------------------------------------------
(* __init__ and build_grid *)

\* the value of a variable the code has not assigned yet
Unset == <<>>

\* the inputs of one call
Inputs ==
  {t \in (0..MaxSum) \X (0..MaxSum) \X DoValues : t[1] + t[2] <= MaxSum}

Init ==
  /\ \E t \in Inputs : d = t[1] /\ mu = t[2] /\ do = t[3]
  /\ pc = "start"
  /\ attrs = {}
  /\ raised = "none"
  /\ Sn = Unset /\ seq = 0 /\ A_chain = Unset
  /\ smol_inds = Unset /\ idx = 0 /\ points = Unset /\ grid = Unset
  /\ Ts = Unset /\ base_polys = Unset /\ B = Unset
  /\ selfB = Unset /\ B_L = Unset /\ B_U = Unset

\* d < 1 in place of d <= 1
Rejects_DBelowOne(dd, m) == m < 1 \/ dd < 1

\* if mu < 1: raise ...; if d <= 1: raise ...
Rejects(dd, m) == m < 1 \/ dd <= 1

\* __init__, up to the call of build_grid
Construct ==
  /\ pc = "start"
  /\ attrs' = attrs \cup {"d", "mu"}
  /\ IF Rejects(d, mu)
     THEN raised' = "ValueError" /\ pc' = "raised"
     ELSE raised' = raised /\ pc' = "a_chain"
  /\ UNCHANGED <<d, mu, do, Sn, seq, A_chain, smol_inds, idx, points, grid,
                 Ts, base_polys, B, selfB, B_L, B_U>>

\* build_grid calls a_chain(mu + 1): Sn = self._s_n(n) and the two seeded levels
a_chain_enter ==
  /\ pc = "a_chain"
  /\ Sn' = s_n(mu + 1)
  /\ A_chain' = A_chain_seed
  /\ seq' = mu + 1
  /\ pc' = "a_chain_loop"
  /\ UNCHANGED <<d, mu, do, attrs, raised, smol_inds, idx, points, grid,
                 Ts, base_polys, B, selfB, B_L, B_U>>

\* one iteration of "for seq in xrange(n, 2, -1)"
a_chain_step ==
  /\ pc = "a_chain_loop"
  /\ seq > 2
  /\ A_chain' = A_chain_put(A_chain, Sn, seq)
  /\ Sn' = Evens(Sn)
  /\ seq' = seq - 1
  /\ UNCHANGED <<d, mu, do, pc, attrs, raised, smol_inds, idx, points, grid,
                 Ts, base_polys, B, selfB, B_L, B_U>>

\* a_chain returns; build_grid goes on with points = [] and self._smol_inds()
smol_inds_call ==
  /\ pc = "a_chain_loop"
  /\ seq <= 2
  /\ smol_inds' = tinds_of(d, mu)
  /\ attrs' = attrs \cup {"smol_inds"}
  /\ points' = <<>>
  /\ idx' = 1
  /\ pc' = "grid_loop"
  /\ UNCHANGED <<d, mu, do, raised, Sn, seq, A_chain, grid,
                 Ts, base_polys, B, selfB, B_L, B_U>>

\* one iteration of "for el in tinds" of build_grid
grid_step ==
  /\ pc = "grid_loop"
  /\ idx <= Len(smol_inds)
  /\ points' = points \o Product(Select(A_chain, smol_inds[idx]))
  /\ idx' = idx + 1
  /\ UNCHANGED <<d, mu, do, pc, attrs, raised, Sn, seq, A_chain, smol_inds,
                 grid, Ts, base_polys, B, selfB, B_L, B_U>>

\* do != "grid" in place of do == "all"
WantsB_NotGrid(x) == x # "grid"

\* if do == "all"
WantsB(x) == x = "all"

\* grid = pd.lib.to_object_array_tuples(points).astype(float): the tuples of
\* floats become the rows of a float array, values and order unchanged;
\* self.grid = grid; build_grid returns; __init__ tests do == "all"
grid_store ==
  /\ pc = "grid_loop"
  /\ idx > Len(smol_inds)
  /\ grid' = points
  /\ attrs' = attrs \cup {"grid"}
  /\ pc' = IF WantsB(do) THEN "build_B" ELSE "done"
  /\ UNCHANGED <<d, mu, do, raised, Sn, seq, A_chain, smol_inds, idx, points,
                 Ts, base_polys, B, selfB, B_L, B_U>>

----------------------------------------------------------------------------
(* build_B *)

\* smolyak_utils.m_i
m_i(n) == Pow2(n - 1) + 1

\* self.grid.T as numbers: x[k][pt], k the dimension, pt the point
GridT(g, dd, M) ==
  [k \in 1..dd |-> [pt \in 1..Len(g) |-> NodeNum(g[pt][k], M)]]

RECURSIVE ChebRows(_, _, _)
\* the first n rows of the Chebyshev table over x: T_0 = 1, T_1 = x,
\* T_(j+1) = 2*x*T_j - T_(j-1), each row shaped like x
ChebRows(x, n, M) ==
  IF n = 1 THEN << [k \in DOMAIN x |-> [pt \in DOMAIN x[k] |-> IntNum(1, M)]] >>
  ELSE IF n = 2 THEN ChebRows(x, 1, M) \o <<x>>
  ELSE LET prev == ChebRows(x, n - 1, M)
       IN  Append(prev,
             [k \in DOMAIN x |-> [pt \in DOMAIN x[k] |->
                Sub(Mul(Twice(x[k][pt]), prev[n - 1][k][pt], M),
                    prev[n - 2][k][pt])]])

\* smolyak_utils.cheby2n(x, n): the table indexed [degree, dimension, point],
\* degrees 0..n-1
cheby2n(x, n, M) ==
  LET rows == ChebRows(x, n, M) IN [deg \in 0..(n - 1) |-> rows[deg + 1]]

\* the dimensions of Ts read in reverse order
Column_DimsReversed(T, comb, dd, npts, M) ==
  [pt \in 1..npts |->
     MulAll([k \in 1..dd |-> T[comb[k] - 1][dd + 1 - k][pt]], dd, M)]

\* Ts[comb[i] - 1, i, :] for i in range(d), multiplied together, at point pt
Column(T, comb, dd, npts, M) ==
  [pt \in 1..npts |-> MulAll([k \in 1..dd |-> T[comb[k] - 1][k][pt]], dd, M)]

\* scipy.linalg.lu(B, True): two n x n factors; only their shape is modelled
lu(b) == <<[factor |-> "permuted_l", shape |-> <<Len(b), Len(b)>>],
           [factor |-> "u", shape |-> <<Len(b), Len(b)>>]>>

\* Ts = cheby2n(self.grid.T, m_i(self.mu + 1)); poly_inds starts
build_B_enter ==
  /\ pc = "build_B"
  /\ Ts' = cheby2n(GridT(grid, d, Pow2(mu)), m_i(mu + 1), Pow2(mu))
  /\ base_polys' = <<>>
  /\ idx' = 1
  /\ pc' = "poly_loop"
  /\ UNCHANGED <<d, mu, do, attrs, raised, Sn, seq, A_chain, smol_inds,
                 points, grid, B, selfB, B_L, B_U>>

\* one iteration of "for el in smol_inds" of poly_inds
poly_step ==
  /\ pc = "poly_loop"
  /\ idx <= Len(smol_inds)
  /\ base_polys' =
       base_polys \o Product(Select(phi_chain(mu + 1), smol_inds[idx]))
  /\ idx' = idx + 1
  /\ UNCHANGED <<d, mu, do, pc, attrs, raised, Sn, seq, A_chain, smol_inds,
                 points, grid, Ts, B, selfB, B_L, B_U>>

\* poly_inds returns; n = len(self.grid); B = np.empty((n, n)): n columns,
\* none of them written yet
poly_return ==
  /\ pc = "poly_loop"
  /\ idx > Len(smol_inds)
  /\ B' = [j \in 1..Len(grid) |-> Unset]
  /\ idx' = 1
  /\ pc' = "B_loop"
  /\ UNCHANGED <<d, mu, do, attrs, raised, Sn, seq, A_chain, smol_inds,
                 points, grid, Ts, base_polys, selfB, B_L, B_U>>

\* one iteration of "for ind, comb in enumerate(base_polys)"; an index
\* outside B or outside Ts raises IndexError
B_step ==
  /\ pc = "B_loop"
  /\ idx <= Len(base_polys)
  /\ LET comb == base_polys[idx] IN
     IF idx > Len(B) \/ \E k \in 1..d : comb[k] - 1 \notin DOMAIN Ts
     THEN /\ raised' = "IndexError"
          /\ pc' = "raised"
          /\ UNCHANGED <<B, idx>>
     ELSE /\ B' = [B EXCEPT ![idx] = Column(Ts, comb, d, Len(grid), Pow2(mu))]
          /\ idx' = idx + 1
          /\ UNCHANGED <<raised, pc>>
  /\ UNCHANGED <<d, mu, do, attrs, Sn, seq, A_chain, smol_inds,
                 points, grid, Ts, base_polys, selfB, B_L, B_U>>

\* self.B = B; l, u = lu(B, True); self.B_L = l; self.B_U = u
B_store ==
  /\ pc = "B_loop"
  /\ idx > Len(base_polys)
  /\ selfB' = B
  /\ B_L' = lu(B)[1]
  /\ B_U' = lu(B)[2]
  /\ attrs' = attrs \cup {"B", "B_L", "B_U"}
  /\ pc' = "done"
  /\ UNCHANGED <<d, mu, do, raised, Sn, seq, A_chain, smol_inds, idx,
                 points, grid, Ts, base_polys, B>>

Next ==
  \/ Construct
  \/ a_chain_enter
  \/ a_chain_step
  \/ smol_inds_call
  \/ grid_step
  \/ grid_store
  \/ build_B_enter
  \/ poly_step
  \/ poly_return
  \/ B_step
  \/ B_store

Spec == Init /\ [][Next]_vars

----------------------------------------------------------------------------
(* Helpers of src/smolyak_jmmv.py *)

\* check_points: the divisions by 2. and 6. are exact
check_points(dd, m) ==
  IF m = 1 THEN 2 * dd + 1
  ELSE IF m = 2 THEN 1 + 4 * dd + (4 * dd * (dd - 1)) \div 2
  ELSE 1 + 8 * dd + (12 * dd * (dd - 1)) \div 2
         + (8 * dd * (dd - 1) * (dd - 2)) \div 6

\* Smoly_JMMV._find_S_n; np.array([0]) and np.array([0.]) hold the same number
find_S_n(n) == s_n(n)

RECURSIVE find_A_n_loop(_, _, _, _)
\* "for seq in xrange(2, n)" of _find_A_n, from iteration k on
find_A_n_loop(chain, S, k, n) ==
  IF k >= n THEN chain
  ELSE find_A_n_loop(Append(chain, Odds(S)), Evens(S), k + 1, n)

\* A_chain.reverse()
Reverse(s) == [i \in 1..Len(s) |-> s[Len(s) + 1 - i]]

\* Smoly_JMMV._find_A_n: the list of levels, level k at 0-based position k-1
find_A_n(n) ==
  Reverse(find_A_n_loop(<<>>, find_S_n(n), 2, n)
            \o << <<NEG_ONE, POS_ONE>>, <<ZERO>> >>)

----------------------------------------------------------------------------
(* Properties *)

\* the set of the entries of the list s
Range(s) == {s[i] : i \in DOMAIN s}

RECURSIVE ProdTo(_, _)
\* f[1] * ... * f[k]
ProdTo(f, k) == IF k = 0 THEN 1 ELSE f[k] * ProdTo(f, k - 1)

\* no entry of the list s occurs twice
NoDup(s) == Cardinality(Range(s)) = Len(s)

Derived == {"grid", "smol_inds", "B", "B_L", "B_U"}

\* the closed forms of the point count, mu = 1, 2, 3
ClosedForm(dd, m) ==
  IF m = 1 THEN 2 * dd + 1
  ELSE IF m = 2 THEN 1 + 4 * dd + 2 * dd * (dd - 1)
  ELSE 1 + 8 * dd + 6 * dd * (dd - 1) + (4 * dd * (dd - 1) * (dd - 2)) \div 3

\* C1: once build_grid has stored the grid of a valid (d, mu) with mu in
\* {1, 2, 3}, its number of points is the closed form (2d+1; 1+4d+2d(d-1);
\* 1+8d+6d(d-1)+(4/3)d(d-1)(d-2)), which is also what check_points returns;
\* (d=2, mu=1) gives 5 points and (d=3, mu=2) gives 25.
C1_PointCount ==
  ("grid" \in attrs /\ mu \in 1..3) =>
    /\ Len(grid) = ClosedForm(d, mu)
    /\ Len(grid) = check_points(d, mu)
    /\ (d = 2 /\ mu = 1 => Len(grid) = 5)
    /\ (d = 3 /\ mu = 2 => Len(grid) = 25)

C1_Witness == "grid" \in attrs /\ d = 3 /\ mu = 3 /\ Len(grid) = 69

\* C2: the list of points build_grid accumulates, and the grid it stores,
\* never hold the same d-tuple of coordinates at two positions.
C2_NoDuplicatePoints ==
  /\ pc = "grid_loop" => NoDup(points)
  /\ "grid" \in attrs => NoDup(grid)

C2_Witness ==
  /\ "grid" \in attrs /\ d = 3 /\ mu = 3
  /\ \E i \in 1..Len(grid) : \E k \in 1..d : grid[i][k] = <<1, 8>>

\* C3: a call with d < 2 or mu < 1 ends in ValueError, and then no derived
\* result exists: grid, index set, basis index list, B and the LU factors are
\* unset and neither build_grid nor build_B has run.
C3_InvalidInputRejected ==
  (pc # "start" /\ (d < 2 \/ mu < 1)) =>
    /\ pc = "raised" /\ raised = "ValueError"
    /\ attrs \cap Derived = {}
    /\ grid = Unset /\ smol_inds = Unset /\ base_polys = Unset
    /\ selfB = Unset /\ B_L = Unset /\ B_U = Unset
    /\ A_chain = Unset /\ points = Unset /\ Ts = Unset /\ B = Unset

C3_Witness == pc = "raised" /\ d = 1 /\ mu = 2 /\ raised = "ValueError"

\* the admissibility rule as the claim states it
InRule(t, dd, m) == dd < Sum(t) /\ Sum(t) <= dd + m

\* C5: the index set of _smol_inds holds every d-tuple over 1..mu+1 whose sum
\* s has d < s <= d+mu, nothing else but the all-ones tuple, the all-ones
\* tuple exactly once, and no multi-index twice.
C5_IndexSet ==
  "smol_inds" \in attrs =>
    /\ \A t \in [1..d -> 1..(mu + 1)] : InRule(t, d, mu) => t \in Range(smol_inds)
    /\ \A i \in 1..Len(smol_inds) :
         /\ smol_inds[i] \in [1..d -> 1..(mu + 1)]
         /\ InRule(smol_inds[i], d, mu) \/ smol_inds[i] = Ones(d)
    /\ Cardinality({i \in 1..Len(smol_inds) : smol_inds[i] = Ones(d)}) = 1
    /\ NoDup(smol_inds)

C5_Witness ==
  /\ "smol_inds" \in attrs /\ d = 3 /\ mu = 2
  /\ \E i \in 1..Len(smol_inds) : smol_inds[i] = <<2, 1, 2>>

\* C6 as stated: for every chain depth n >= 2 the even 0-based positions of
\* _s_n(n) are _s_n(n-1).
C6_NestingFromTwo ==
  pc = "a_chain_loop" => \A n \in 2..(mu + 1) : Evens(s_n(n)) = s_n(n - 1)

\* C6, amended: for every chain depth n >= 3 the even 0-based positions of
\* _s_n(n) are _s_n(n-1) computed on its own; so the array a_chain carries
\* through its loop is _s_n(seq) at every iteration.
C6_NestingFromThree ==
  pc = "a_chain_loop" =>
    /\ \A n \in 3..(mu + 1) : Evens(s_n(n)) = s_n(n - 1)
    /\ Sn = s_n(seq)

C6_Witness == pc = "a_chain_loop" /\ mu = 4 /\ seq = 3 /\ Len(Sn) = 5

\* a_chain has returned
ChainReturned ==
  pc \in {"grid_loop", "build_B", "poly_loop", "B_loop", "done"}
    \/ (pc = "a_chain_loop" /\ seq <= 2)

AllNodes(chain) == UNION {Range(chain[k]) : k \in DOMAIN chain}

\* C9: a_chain(n), n = mu+1 >= 2, returns the levels 1..n, level 1 = {0},
\* level 2 = {-1, 1}; no node occurs twice, in one level or in two; the union
\* of the levels is S_n, of size 2^(n-1)+1; each level k >= 3 is the odd
\* 0-based positions of S_k and has 2^(k-2) nodes.  _find_A_n returns the
\* same levels.
C9_DisjointChain ==
  ChainReturned =>
    LET n == mu + 1 IN
    /\ DOMAIN A_chain = 1..n
    /\ A_chain[1] = <<ZERO>>
    /\ A_chain[2] = <<NEG_ONE, POS_ONE>>
    /\ Cardinality(AllNodes(A_chain)) = SumTo([k \in 1..n |-> Len(A_chain[k])], n)
    /\ AllNodes(A_chain) = Range(s_n(n))
    /\ Cardinality(Range(s_n(n))) = Pow2(n - 1) + 1
    /\ \A k \in 3..n : A_chain[k] = Odds(s_n(k)) /\ Len(A_chain[k]) = Pow2(k - 2)
    /\ find_A_n(n) = [k \in 1..n |-> A_chain[k]]

C9_Witness ==
  ChainReturned /\ mu = 3 /\ A_chain[4] = <<<<1, 8>>, <<3, 8>>, <<5, 8>>, <<7, 8>>>>

\* the number of combinations entry el contributes, by the level sizes of chain
Count(chain, el) == ProdTo([k \in 1..Len(el) |-> Len(chain[el[k]])], Len(el))

RECURSIVE Before(_, _, _)
\* the number of combinations contributed by the first e entries of inds
Before(chain, inds, e) ==
  IF e = 0 THEN 0 ELSE Count(chain, inds[e]) + Before(chain, inds, e - 1)

RECURSIVE Stride(_, _, _)
\* the number of combinations of the positions after k of entry el
Stride(chain, el, k) ==
  IF k >= Len(el) THEN 1
  ELSE Len(chain[el[k + 1]]) * Stride(chain, el, k + 1)

\* the 0-based place, within its level, of component k of combination number
\* off (0-based) of entry el
Place(chain, el, off, k) == (off \div Stride(chain, el, k)) % Len(chain[el[k]])

\* C4: when poly_inds returns, its list and the grid have the same length,
\* and position i of both comes from the same entry of the index set at the
\* same offset of that entry's Cartesian product: in every dimension the grid
\* coordinate and the basis degree sit at the same place of the node level
\* and of the phi level that the entry selects.
C4_Aligned ==
  (pc = "B_loop" /\ idx = 1) =>
    LET aphi == phi_chain(mu + 1)
        cum == [e \in 0..Len(smol_inds) |-> Before(A_chain, smol_inds, e)]
    IN
    /\ Len(base_polys) = Len(grid)
    /\ cum[Len(smol_inds)] = Len(grid)
    /\ \A i \in 1..Len(grid) :
         LET e == CHOOSE x \in 1..Len(smol_inds) : cum[x - 1] < i /\ i <= cum[x]
             el == smol_inds[e]
             off == i - 1 - cum[e - 1]
         IN  \A k \in 1..d :
               /\ grid[i][k] = A_chain[el[k]][Place(A_chain, el, off, k) + 1]
               /\ base_polys[i][k] = aphi[el[k]][Place(A_chain, el, off, k) + 1]

C4_Witness ==
  /\ pc = "B_loop" /\ idx = 1 /\ d = 3 /\ mu = 3
  /\ \E i \in 1..Len(grid) :
       grid[i] = <<ZERO, <<7, 8>>, ZERO>> /\ base_polys[i] = <<1, 9, 1>>

\* T_0(x), ..., T_n(x) by T_0 = 1, T_1 = x, T_(j+1) = 2x*T_j - T_(j-1)
RECURSIVE ChebValues(_, _, _)
ChebValues(x, n, M) ==
  IF n = 0 THEN <<IntNum(1, M)>>
  ELSE IF n = 1 THEN <<IntNum(1, M), x>>
  ELSE LET prev == ChebValues(x, n - 1, M)
       IN  Append(prev, Sub(Twice(Mul(x, prev[n], M)), prev[n - 1]))

RECURSIVE ChebTable(_, _, _)
\* node |-> <<T_0(x), ..., T_n(x)>>, x the number the node stands for
ChebTable(nodes, n, M) ==
  IF nodes = {} THEN <<>>
  ELSE LET x == CHOOSE y \in nodes : TRUE
       IN  (x :> ChebValues(NodeNum(x, M), n, M)) @@ ChebTable(nodes \ {x}, n, M)

\* the hand-computed B of d = 2, mu = 1: rows are the grid points
\* (0,-1), (0,1), (-1,0), (1,0), (0,0), columns the basis indices
\* (1,2), (1,3), (2,1), (3,1), (1,1)
Reference21 ==
  << <<-1,  1,  0, -1, 1>>,
     << 1,  1,  0, -1, 1>>,
     << 0, -1, -1,  1, 1>>,
     << 0, -1,  1,  1, 1>>,
     << 0, -1,  0, -1, 1>> >>

\* T_j(x) for an integer x in {-1, 0, 1} and j in 0..2, in closed form
SmallT(j, x) == IF j = 0 THEN 1 ELSE IF j = 1 THEN x ELSE 2 * x * x - 1

\* the integer a node value of the mu = 1 grid stands for
NodeInt(node) == IF node = NEG_ONE THEN -1 ELSE IF node = POS_ONE THEN 1 ELSE 0

\* column col holds, at row i, the product over k of T_(comb[k]-1)(grid[i][k]),
\* the values of T read from tab
ColumnIs(col, comb, tab, M) ==
  \A i \in 1..Len(grid) :
    col[i] = MulAll([k \in 1..d |-> tab[grid[i][k]][comb[k]]], d, M)

\* C7: the B that build_B stores is square, n x n, and its entry at row i,
\* column j is the product over the dimensions k of T_(b_k - 1)(Grid[i][k]),
\* (b_1..b_d) = BasisIndex[j] and T the Chebyshev recurrence;
\* for mu = 1 its entries are integers, equal to the direct evaluation, and
\* for d = 2, mu = 1 it is the hand-computed reference matrix.
C7_CollocationMatrix ==
  LET M == Pow2(mu)
      n == Len(grid)
  IN
  /\ "B" \in attrs =>
       /\ Len(selfB) = n
       /\ \A j \in 1..n : Len(selfB[j]) = n
       /\ LET tab == ChebTable(AllNodes(A_chain), M, M)
          IN  \A j \in 1..n : ColumnIs(selfB[j], base_polys[j], tab, M)
  /\ ("B" \in attrs /\ mu = 1) =>
       \A i \in 1..n : \A j \in 1..n :
         selfB[j][i] =
           IntNum(ProdTo([k \in 1..d |->
                     SmallT(base_polys[j][k] - 1, NodeInt(grid[i][k]))], d), M)
  /\ ("B" \in attrs /\ d = 2 /\ mu = 1) =>
       /\ n = 5
       /\ \A i \in 1..5 : \A j \in 1..5 : selfB[j][i] = IntNum(Reference21[i][j], M)

C7_Witness ==
  /\ "B" \in attrs /\ d = 2 /\ mu = 1
  /\ selfB[2] = [i \in 1..5 |-> IntNum(IF i <= 2 THEN 1 ELSE -1, 2)]

\* C8: B and the LU factors exist only on an instance built with do = "all":
\* a finished call with do = "grid" has set the grid and the index set and
\* none of B, B_L, B_U; a finished call with do = "all" has set all five; and
\* build_B runs only once build_grid has stored the grid and the index set.
C8_BuildLevels ==
  /\ (attrs \cap {"B", "B_L", "B_U"} # {} \/ selfB # Unset
        \/ B_L # Unset \/ B_U # Unset) => do = "all"
  /\ (pc = "done" /\ do = "grid") =>
       /\ {"grid", "smol_inds"} \subseteq attrs
       /\ attrs \cap {"B", "B_L", "B_U"} = {}
       /\ grid # Unset /\ smol_inds # Unset
  /\ (pc = "done" /\ do = "all") =>
       /\ Derived \subseteq attrs
       /\ grid # Unset /\ smol_inds # Unset
       /\ selfB # Unset /\ B_L # Unset /\ B_U # Unset
  /\ (pc \in {"build_B", "poly_loop", "B_loop"} \/ Ts # Unset \/ "B" \in attrs) =>
       /\ {"grid", "smol_inds"} \subseteq attrs
       /\ grid # Unset /\ smol_inds # Unset /\ grid = points

C8_Witness ==
  /\ pc = "done" /\ do = "grid" /\ d = 2 /\ mu = 2
  /\ attrs = {"d", "mu", "smol_inds", "grid"}

\* C10: every component b of every basis index has 1 <= b <= 2^mu + 1, so
\* Ts[b - 1, k, :] addresses a degree in 0..2^mu, a row of the table cheby2n
\* built for chain depth mu+1, and build_B raises no IndexError; and no two
\* basis indices are the same tuple.
C10_DegreesInTable ==
  /\ raised # "IndexError"
  /\ pc = "B_loop" =>
       /\ \A i \in 1..Len(base_polys) : \A k \in 1..d :
            /\ 1 <= base_polys[i][k] /\ base_polys[i][k] <= Pow2(mu) + 1
            /\ base_polys[i][k] - 1 \in DOMAIN Ts
       /\ 0..Pow2(mu) \subseteq DOMAIN Ts
       /\ NoDup(base_polys)

C10_Witness ==
  /\ pc = "B_loop" /\ mu = 3 /\ idx > 1
  /\ \E k \in 1..d : base_polys[idx - 1][k] = 9

====
